---------------------------- MODULE Spec2Model ----------------------------
(***************************************************************************)
(* A state-machine model of parts of napari:                               *)
(*   - ChunkKey / ChunkRequest   (components/experimental/chunk/_request)  *)
(*   - VispyImageLayer           (_vispy/vispy_image_layer)                *)
(*   - QtViewer.on_key_press     (components/_viewer/view/main)            *)
(*   - ViewerModel               (components/viewer_model)                 *)
(* Each part has its own next-state relation and specification; the parts  *)
(* share one Init and leave each other's variables unchanged.              *)
(***************************************************************************)
EXTENDS Integers, Sequences, FiniteSets, TLC

VARIABLES
    \* ---- ChunkKey ----
    keyA,        \* the ChunkKey held by a pending request, or NoKey
    cmp,         \* outcome of the last  ChunkKey(layer, indices) == keyA
    \* ---- ChunkRequest ----
    chunks,      \* self.chunks : name -> array
    timers,      \* self.timers : name -> time at which the PerfEvent was stored
    req_key,     \* self.key
    req_pc,      \* "loading" inside load_chunks, "done" / "raised" when it has
                 \* just returned / raised, "idle" otherwise
    todo,        \* names load_chunks has still to iterate over
    clock,       \* time, advanced each time a timer is stored
    loads,       \* number of load_chunks calls made on this request
    before,      \* chunks as they were when load_chunks was entered
    thumb,       \* value last returned by the thumbnail_source property
    \* ---- downsample_texture, called on its own ----
    ds,          \* the last call: its layer, data shape, MAX and outcome
    \* ---- VispyImageLayer ----
    lay,         \* self.layer: multiscale, loaded, _dims.ndim, _dims.ndisplay
    vis,         \* self.node and the data the image and volume nodes hold
    tile2data,   \* self.layer._transforms['tile2data'].scale
    ret,         \* the last handler called and how it ended
    \* ---- Viewer and QtViewer (components/_viewer) ----
    key_bindings,  \* viewer.key_bindings : key -> function
    qv,            \* viewer: _status, _help, _cursor, _interactive, _top
    kp,            \* the last key press on the canvas and what it called
    \* ---- ViewerModel ----
    viewer_layers,   \* self.layers : the layers of the list, in order
    layer_selected,  \* the layers whose selected is True
    layer_ndim,      \* layer -> ndim of its data, 0 before it is constructed
    connected,       \* the layers add_layer has connected to the viewer
    vm,              \* _status, _help, _cursor, _interactive, _active_layer
    dims_range,      \* self.dims.range
    last,            \* the last event, and the dims range length before it
    \* ---- plugins.io.read_data_with_plugins ----
    readers,  \* the napari_get_reader implementations, in hook order
    skip_impls,  \* skip_impls of the running call
    reader_calls,  \* implementation -> calls of its reader function
    read_pc,  \* "loop" inside read_data_with_plugins, then how it ended
    read_ret, \* the value read_data_with_plugins returned
    \* ---- plugins.io.save_layers ----
    sv, \* the call of save_layers: its arguments, what the plugins do, its outcome
    \* ---- ViewerModel.to_svg ----
    layer_visible,  \* the layers whose visible is True
    svg, \* the call of to_svg: its view_box and what it made
    \* ---- ViewerModel.theme and palette ----
    themes,  \* ViewerModel.themes : name -> palette, in insertion order
    palette,  \* self._palette
    th, \* the last assignment to theme, palette or themes
    \* ---- QtLayerList ----
    ql_layers,  \* self.layers
    ql_items,  \* the items of the list widget, row 0 first
    ql_selected,  \* the selected items
    ql_emitted,  \* the selection event emitted by the last handler, if any
    ql_last, \* the last handler, its arguments and the items before it
    \* ---- ViewerModel property setters ----
    pr,  \* the private fields behind the properties of ViewerModel
    pr_last  \* the last assignment to a property: value, fields before, events emitted

vars == <<keyA, cmp, chunks, timers, req_key, req_pc, todo, clock, loads,
          before, thumb, ds, lay, vis, tile2data, ret, key_bindings, qv, kp,
          viewer_layers, layer_selected, layer_ndim, connected, vm,
          dims_range, last,
          readers, skip_impls, reader_calls, read_pc, read_ret,
          sv,
          layer_visible, svg,
          themes, palette, th,
          ql_layers, ql_items, ql_selected, ql_emitted, ql_last,
          pr, pr_last>>

keyVars == <<keyA, cmp>>
reqVars == <<chunks, timers, req_key, req_pc, todo, clock, loads, before, thumb>>
dsVars == <<ds>>
imgVars == <<lay, vis, tile2data, ret>>
qtVars == <<key_bindings, qv, kp>>
vmVars == <<viewer_layers, layer_selected, layer_ndim, connected, vm,
            dims_range, last>>
rdVars == <<readers, skip_impls, reader_calls, read_pc, read_ret>>
svVars == <<sv>>
svgVars == <<layer_visible, svg>>
thVars == <<themes, palette, th>>
qlVars == <<ql_layers, ql_items, ql_selected, ql_emitted, ql_last>>
prVars == <<pr, pr_last>>

-----------------------------------------------------------------------------
(* Python's None, as a value no integer of the model equals. *)
None == -1000

-----------------------------------------------------------------------------
(***************************************************************************)
(* ChunkKey.                                                               *)
(* An index is an int or a slice.  An int n is the 1-tuple <<n>>, a slice  *)
(* slice(start, stop, step) the 3-tuple <<start, stop, step>> whose        *)
(* components are ints or None.  indices is a tuple of such indexes.       *)
(***************************************************************************)

\* Largest length of a flattened index tuple that is enumerated.
MaxFlat == 3

IndexInts == {0}
SliceVals == {None, 0}
DataLevels == {0, 1}
LayerIds == {11, 12}
DataIds == {21, 22}

IntIndex(n) == <<n>>
Slice(a, b, c) == <<a, b, c>>
isinstance_slice(x) == Len(x) = 3

IndexElems ==
    {IntIndex(n) : n \in IndexInts}
        \cup {Slice(a, b, c) : a \in SliceVals, b \in SliceVals, c \in SliceVals}

\* The tuples of ints and slices whose flattened form has exactly n entries.
RECURSIVE TuplesOfFlatLen(_)
TuplesOfFlatLen(n) ==
    IF n = 0 THEN {<<>>}
    ELSE {Append(t, e) : t \in TuplesOfFlatLen(n - 1),
                         e \in {x \in IndexElems : ~isinstance_slice(x)}}
         \cup (IF n >= 3
                THEN {Append(t, e) : t \in TuplesOfFlatLen(n - 3),
                                     e \in {x \in IndexElems : isinstance_slice(x)}}
                ELSE {})

\* The index tuples enumerated: every tuple of ints and slices whose
\* flattened form has at most MaxFlat entries.
IndexTuples == UNION {TuplesOfFlatLen(n) : n \in 0..MaxFlat}

\* A layer as ChunkKey.__init__ reads it: its identity, the identity of its
\* data and its current multiscale level.
LayerObjs == [id : LayerIds, data_id : DataIds, _data_level : DataLevels]

RECURSIVE _flatten(_)
_flatten(indices) ==
    IF indices = <<>> THEN <<>>
    ELSE LET x == Head(indices)
         IN  (IF isinstance_slice(x) THEN <<x[1], x[2], x[3]>> ELSE <<x[1]>>)
                 \o _flatten(Tail(indices))

LayerKey(layer_id, data_id, data_level, indices) ==
    [layer_id |-> layer_id, data_id |-> data_id, data_level |-> data_level,
     indices |-> indices]

LayerKey_get_hash_values(lk) ==
    <<lk.layer_id, lk.data_id, lk.data_level, _flatten(lk.indices)>>

\* hash() of an int or None: small ints hash to themselves, except -1.
PyHash(x) == IF x = -1 THEN -2 ELSE x

\* hash() of the tuple of hash values.  The hash of a tuple is a function of
\* the hashes of its entries; it is kept as the tuple of those hashes, so
\* two keys are equal here only if they are equal for every hash function.
hash(hv) ==
    <<PyHash(hv[1]), PyHash(hv[2]), PyHash(hv[3]),
      [i \in DOMAIN hv[4] |-> PyHash(hv[4][i])]>>

\* No ChunkKey (no request has been made yet).
NoKey == [layer_key |-> LayerKey(0, 0, 0, <<>>), key |-> <<>>]

\* id(self) of the ChunkKey under construction: the key kept and a key built
\* later are two objects.
id_self == IF keyA = NoKey THEN 31 ELSE 32

\* As ChunkKey._get_hash_values, had it hashed the key object's own identity
\* in place of the layer's.
ChunkKey_get_hash_values_id_self(layer_key) ==
    <<id_self, layer_key.data_id, layer_key.data_level,
      _flatten(layer_key.indices)>>

\* ChunkKey._get_hash_values
ChunkKey_get_hash_values(layer_key) ==
    LayerKey_get_hash_values(layer_key)

\* ChunkKey.__init__
ChunkKey(layer, indices) ==
    LET layer_key == LayerKey(layer.id, layer.data_id, layer._data_level, indices)
    IN  [layer_key |-> layer_key,
         key |-> hash(ChunkKey_get_hash_values(layer_key))]

\* ChunkKey.__eq__
ChunkKey__eq__(self, other) == self.key = other.key

NoCmp ==
    [made |-> FALSE, eq |-> FALSE, same_key |-> FALSE, same_layer |-> FALSE,
     same_data |-> FALSE, same_level |-> FALSE, same_indices |-> FALSE]

\* A request is made: its ChunkKey is built and kept.
NewChunkKey(layer, indices) ==
    /\ keyA' = ChunkKey(layer, indices)
    /\ cmp' = NoCmp
    /\ UNCHANGED <<reqVars, dsVars, imgVars, qtVars, vmVars, rdVars, svVars,
                   svgVars, thVars, qlVars, prVars>>

\* A second ChunkKey is built, now, and compared with the one kept.
CompareChunkKey(layer, indices) ==
    /\ keyA # NoKey
    /\ LET other == ChunkKey(layer, indices)
       IN  cmp' = [made |-> TRUE,
                   eq |-> ChunkKey__eq__(other, keyA),
                   same_key |-> other.key = keyA.key,
                   same_layer |-> other.layer_key.layer_id = keyA.layer_key.layer_id,
                   same_data |-> other.layer_key.data_id = keyA.layer_key.data_id,
                   same_level |-> other.layer_key.data_level = keyA.layer_key.data_level,
                   same_indices |-> other.layer_key.indices = keyA.layer_key.indices]
    /\ UNCHANGED <<keyA>>
    /\ UNCHANGED <<reqVars, dsVars, imgVars, qtVars, vmVars, rdVars, svVars,
                   svgVars, thVars, qlVars, prVars>>

KeyInit ==
    /\ keyA = NoKey
    /\ cmp = NoCmp

NextKey ==
    \/ \E layer \in LayerObjs, indices \in IndexTuples : NewChunkKey(layer, indices)
    \/ \E layer \in LayerObjs, indices \in IndexTuples : CompareChunkKey(layer, indices)

-----------------------------------------------------------------------------
(***************************************************************************)
(* ChunkRequest.                                                           *)
(* An array is a record: kind is "ndarray" (in memory) or "lazy" (an        *)
(* array-like that np.asarray reads, which may raise), of names the data   *)
(* it holds and T says whether its axes are swapped.                       *)
(***************************************************************************)

\* Number of load_chunks calls followed on one request.
MaxLoads == 2

AGGREGATE == "ChunkRequest.load_chunks"
ChunkNames == {"image", "thumbnail_source", AGGREGATE}
ArrayKinds == {"ndarray", "lazy"}

Arrays == [kind : ArrayKinds, of : ChunkNames, T : BOOLEAN]
NoneArray == [kind |-> "None", of |-> "", T |-> FALSE]

\* The chunks dicts a request is constructed with: each array not None.
ChunkDicts ==
    UNION {[S -> ArrayKinds] : S \in SUBSET ChunkNames}

MakeChunks(kinds) ==
    [n \in DOMAIN kinds |-> [kind |-> kinds[n], of |-> n, T |-> FALSE]]

RequestKeys ==
    {ChunkKey([id |-> 11, data_id |-> 21, _data_level |-> lv], <<IntIndex(0)>>) :
        lv \in DataLevels}

isinstance_ndarray(x) == x.kind = "ndarray"

\* np.asarray(array), when it returns.
np_asarray(array) == [array EXCEPT !.kind = "ndarray"]

\* array.transpose(order): order is "keep" (the identity) or "swap".
transpose(array, order) ==
    IF order = "swap" THEN [array EXCEPT !.T = ~array.T] ELSE array

\* dict.get(name): the value, or None.
dict_get(d, name) == IF name \in DOMAIN d THEN d[name] ELSE NoneArray

\* d[name] = value
dict_set(d, name, value) ==
    [n \in DOMAIN d \cup {name} |-> IF n = name THEN value ELSE d[n]]

\* ChunkRequest.num_chunks
num_chunks == Cardinality(DOMAIN chunks)

\* ChunkRequest.in_memory
in_memory == \A n \in DOMAIN chunks : isinstance_ndarray(chunks[n])

thumbnail_source_image_first ==
    IF "image" \in DOMAIN chunks
    THEN chunks["image"]
    ELSE dict_get(chunks, "thumbnail_source")

\* ChunkRequest.thumbnail_source
thumbnail_source ==
    IF "thumbnail_source" \in DOMAIN chunks
    THEN chunks["thumbnail_source"]
    ELSE dict_get(chunks, "image")

NotRead == [read |-> FALSE, value |-> NoneArray]
NoBefore == [chunks |-> <<>>, key |-> NoKey, in_memory |-> FALSE]

\* ChunkRequest.__init__
ChunkRequestInit(key, chunks0) ==
    /\ \A n \in DOMAIN chunks0 : chunks0[n] # NoneArray
    /\ req_key' = key
    /\ chunks' = chunks0
    /\ timers' = <<>>
    /\ req_pc' = "idle"
    /\ todo' = {}
    /\ clock' = 0
    /\ loads' = 0
    /\ before' = NoBefore
    /\ thumb' = NotRead
    /\ UNCHANGED <<keyVars, dsVars, imgVars, qtVars, vmVars, rdVars, svVars,
                   svgVars, thVars, qlVars, prVars>>

\* The thumbnail_source property is read.
ReadThumbnailSource ==
    /\ req_pc # "loading"
    /\ req_key # NoKey
    /\ thumb' = [read |-> TRUE, value |-> thumbnail_source]
    /\ UNCHANGED <<chunks, timers, req_key, req_pc, todo, clock, loads,
                   before>>
    /\ UNCHANGED <<keyVars, dsVars, imgVars, qtVars, vmVars, rdVars, svVars,
                   svgVars, thVars, qlVars, prVars>>

\* As chunk_timer, had it stored the aggregate event when its block starts.
chunk_timer_store_at_start(t, name) ==
    dict_set(t, name, IF name = AGGREGATE THEN 0 ELSE clock)

load_chunk_not_stored(ch, key) == ch

\* The body of the loop of load_chunks, np.asarray returning.
load_chunk(ch, key) == dict_set(ch, key, np_asarray(ch[key]))

\* self.timers[name] = event, as chunk_timer does when its block ends normally.
chunk_timer_store(t, name) == dict_set(t, name, clock)

\* load_chunks is entered: the aggregate chunk_timer block starts and the
\* loop over self.chunks.items() begins.
LoadChunksEnter ==
    /\ req_pc \in {"idle", "done", "raised"}
    /\ req_key # NoKey
    /\ loads < MaxLoads
    /\ loads' = loads + 1
    /\ req_pc' = "loading"
    /\ todo' = DOMAIN chunks
    /\ before' = [chunks |-> chunks, key |-> req_key, in_memory |-> in_memory]
    /\ clock' = clock + 1
    /\ thumb' = NotRead
    /\ UNCHANGED <<chunks, timers, req_key>>
    /\ UNCHANGED <<keyVars, dsVars, imgVars, qtVars, vmVars, rdVars, svVars,
                   svgVars, thVars, qlVars, prVars>>

\* One turn of the loop, np.asarray returning: the chunk is replaced and its
\* timer stored.
LoadOneChunk(key) ==
    /\ req_pc = "loading"
    /\ key \in todo
    /\ chunks' = load_chunk(chunks, key)
    /\ timers' = chunk_timer_store(timers, key)
    /\ clock' = clock + 1
    /\ todo' = todo \ {key}
    /\ UNCHANGED <<req_key, req_pc, loads, before, thumb>>
    /\ UNCHANGED <<keyVars, dsVars, imgVars, qtVars, vmVars, rdVars, svVars,
                   svgVars, thVars, qlVars, prVars>>

\* One turn of the loop, np.asarray raising while it reads a lazy array: the
\* exception leaves both chunk_timer blocks before either stores its timer.
LoadOneChunkRaises(key) ==
    /\ req_pc = "loading"
    /\ key \in todo
    /\ chunks[key].kind = "lazy"
    /\ req_pc' = "raised"
    /\ todo' = {}
    /\ UNCHANGED <<chunks, timers, req_key, clock, loads, before, thumb>>
    /\ UNCHANGED <<keyVars, dsVars, imgVars, qtVars, vmVars, rdVars, svVars,
                   svgVars, thVars, qlVars, prVars>>

\* The loop is over: the aggregate timer is stored and load_chunks returns.
LoadChunksReturn ==
    /\ req_pc = "loading"
    /\ todo = {}
    /\ timers' = chunk_timer_store(timers, AGGREGATE)
    /\ clock' = clock + 1
    /\ req_pc' = "done"
    /\ UNCHANGED <<chunks, req_key, todo, loads, before, thumb>>
    /\ UNCHANGED <<keyVars, dsVars, imgVars, qtVars, vmVars, rdVars, svVars,
                   svgVars, thVars, qlVars, prVars>>

\* ChunkRequest.transpose_chunks
transpose_chunks(order) ==
    /\ req_pc # "loading"
    /\ req_key # NoKey
    /\ chunks' = [n \in DOMAIN chunks |-> transpose(chunks[n], order)]
    /\ req_pc' = "idle"
    /\ thumb' = NotRead
    /\ UNCHANGED <<timers, req_key, todo, clock, loads, before>>
    /\ UNCHANGED <<keyVars, dsVars, imgVars, qtVars, vmVars, rdVars, svVars,
                   svgVars, thVars, qlVars, prVars>>

ReqInit ==
    /\ chunks = <<>>
    /\ timers = <<>>
    /\ req_key = NoKey
    /\ req_pc = "idle"
    /\ todo = {}
    /\ clock = 0
    /\ loads = 0
    /\ before = NoBefore
    /\ thumb = NotRead

NextRequest ==
    \/ \E key \in RequestKeys, kinds \in ChunkDicts :
           ChunkRequestInit(key, MakeChunks(kinds))
    \/ ReadThumbnailSource
    \/ LoadChunksEnter
    \/ \E key \in ChunkNames : LoadOneChunk(key)
    \/ \E key \in ChunkNames : LoadOneChunkRaises(key)
    \/ LoadChunksReturn
    \/ \E order \in {"keep", "swap"} : transpose_chunks(order)

-----------------------------------------------------------------------------
(***************************************************************************)
(* VispyImageLayer.                                                        *)
(* Data is known by its shape, a tuple of axis lengths.  The display       *)
(* parameters of the nodes (visible, colormap, clim, ...) are not part of  *)
(* the model.                                                              *)
(***************************************************************************)

\* Largest axis length and largest MAX_TEXTURE_SIZE enumerated for a call of
\* downsample_texture on its own.
MaxAxis == 5
MaxTexture == 3

\* The same for the data and the MAX_TEXTURE_SIZE the handlers meet.
MaxViewAxis == 2
MaxViewTexture == 1

Shapes(k, longest) == [1..k -> 0..longest]
TextureSizes == 1..MaxTexture

\* self.layer and its _dims, as the visual reads them.
LayerStates ==
    [multiscale : BOOLEAN, loaded : BOOLEAN, ndim : {2, 3}, ndisplay : {2, 3}]

\* layer._dims.displayed: the last ndisplay axes of the layer (all of them
\* when it has fewer), numbered from 1.
dims_displayed(layer) ==
    LET k == IF layer.ndisplay < layer.ndim THEN layer.ndisplay ELSE layer.ndim
    IN  [i \in 1..k |-> layer.ndim - k + i]

\* The shapes layer._data_view can have: one axis per displayed axis.
DataViews(layer, longest) == Shapes(Len(dims_displayed(layer)), longest)

\* np.expand_dims(data, axis=0)
expand_dims(data) == <<1>> \o data

\* The data _set_node_data hands to downsample_texture.
TextureData(layer, data) ==
    IF layer.ndisplay = 3 /\ layer.ndim = 2 THEN expand_dims(data) ELSE data

\* np.ceil(np.divide(n, m)).astype(int), for n >= 0 and m >= 1
CeilDiv(n, m) == (n + m - 1) \div m

\* len(range(0, n, step)): the length of an axis of data[::step], step >= 1
SliceLen(n, step) == CeilDiv(n, step)

\* np.any(np.greater(data.shape, MAX_TEXTURE_SIZE))
any_greater(shape, MAX_TEXTURE_SIZE) ==
    \E i \in DOMAIN shape : shape[i] > MAX_TEXTURE_SIZE

\* The scale downsample_texture gives tile2data: ones, with downsample[i] at
\* the i-th displayed axis.
downsample_scale(layer, downsample) ==
    LET displayed == dims_displayed(layer)
    IN  [d \in 1..layer.ndim |->
            IF \E i \in DOMAIN displayed : displayed[i] = d
            THEN downsample[CHOOSE i \in DOMAIN displayed : displayed[i] = d]
            ELSE 1]

\* As downsample_texture, had it refused multiscale data only after giving
\* tile2data its scale.
downsample_texture_scale_first(layer, scale, data, MAX_TEXTURE_SIZE) ==
    IF ~any_greater(data, MAX_TEXTURE_SIZE)
    THEN [exc |-> "none", data |-> data, scale |-> scale]
    ELSE LET downsample ==
                 [i \in DOMAIN data |-> CeilDiv(data[i], MAX_TEXTURE_SIZE)]
             newscale == downsample_scale(layer, downsample)
         IN  IF layer.multiscale \/ \E i \in DOMAIN downsample : downsample[i] = 0
             THEN [exc |-> "ValueError", data |-> data, scale |-> newscale]
             ELSE [exc |-> "none",
                   data |-> [i \in DOMAIN data |->
                                SliceLen(data[i], downsample[i])],
                   scale |-> newscale]

\* VispyImageLayer.downsample_texture: how it ends (exc), the data it
\* returns and the tile2data scale it leaves, from the scale it found.
downsample_texture(layer, scale, data, MAX_TEXTURE_SIZE) ==
    IF ~any_greater(data, MAX_TEXTURE_SIZE)
    THEN [exc |-> "none", data |-> data, scale |-> scale]
    ELSE IF layer.multiscale
    THEN [exc |-> "ValueError", data |-> data, scale |-> scale]
    ELSE LET downsample ==
                 [i \in DOMAIN data |-> CeilDiv(data[i], MAX_TEXTURE_SIZE)]
             newscale == downsample_scale(layer, downsample)
         IN  IF \E i \in DOMAIN downsample : downsample[i] = 0
             THEN \* slice(None, None, 0): "slice step cannot be zero"
                  [exc |-> "ValueError", data |-> data, scale |-> newscale]
             ELSE [exc |-> "none",
                   data |-> [i \in DOMAIN data |->
                                SliceLen(data[i], downsample[i])],
                   scale |-> newscale]

ones(n) == [i \in 1..n |-> 1]

NoLayer == [multiscale |-> FALSE, loaded |-> FALSE, ndim |-> 0, ndisplay |-> 0]

NoCall ==
    [called |-> FALSE, layer |-> NoLayer,
     data |-> <<>>, MAX |-> 1, exc |-> "none", out |-> <<>>, scale |-> <<>>]

\* downsample_texture(data, MAX_TEXTURE_SIZE) is called on the visual of a
\* layer whose tile2data scale is still ones.
CallDownsampleTexture(layer, data, MAX_TEXTURE_SIZE) ==
    /\ ~ds.called
    /\ LET r == downsample_texture(layer, ones(layer.ndim),
                                   TextureData(layer, data), MAX_TEXTURE_SIZE)
       IN  ds' = [called |-> TRUE, layer |-> layer,
                  data |-> TextureData(layer, data),
                  MAX |-> MAX_TEXTURE_SIZE, exc |-> r.exc, out |-> r.data,
                  scale |-> r.scale]
    /\ UNCHANGED <<keyVars, reqVars, imgVars, qtVars, vmVars, rdVars, svVars,
                   svgVars, thVars, qlVars, prVars>>

DsInit == ds = NoCall

NextDownsample ==
    \E layer \in LayerStates :
        \E data \in DataViews(layer, MaxAxis), MAX_TEXTURE_SIZE \in TextureSizes :
            /\ layer.loaded
            /\ CallDownsampleTexture(layer, data, MAX_TEXTURE_SIZE)

-----------------------------------------------------------------------------
(***************************************************************************)
(* The handlers of VispyImageLayer.  A node holds "initial" (what it was   *)
(* constructed with), "zeros" (the placeholder _on_display_change makes)   *)
(* or "view" (data made from layer._data_view).  A handler maps the record *)
(* v of the visual's state (vis, scale, ret) to the one it leaves.         *)
(***************************************************************************)

NoneSize == 0
MaxTextureSizes == {NoneSize} \cup 1..MaxViewTexture
DTypeKinds == {"numeric", "other"}

\* ImageLayerNode.get_node (no custom node)
get_node(ndisplay) == IF ndisplay = 2 THEN "image" ELSE "volume"

\* node.set_data(data)
node_set_data(visual, node, data) ==
    IF node = "image" THEN [visual EXCEPT !.image = data]
                      ELSE [visual EXCEPT !.volume = data]

\* _on_display_change without the test of layer.loaded.
on_display_change_always_sets(v, layer, data) ==
    LET node == get_node(layer.ndisplay)
    IN  [v EXCEPT !.vis = node_set_data([v.vis EXCEPT !.node = node],
                                        node, data)]

\* VispyImageLayer._on_display_change(data); data is "zeros" when the
\* caller passes none.
on_display_change(v, layer, data) ==
    LET node == get_node(layer.ndisplay)
        switched == [v.vis EXCEPT !.node = node]
    IN  [v EXCEPT !.vis = IF layer.loaded
                          THEN node_set_data(switched, node, data)
                          ELSE switched]

\* VispyImageLayer._set_node_data(self.node, data), data of the given dtype
\* kind; MAX_TEXTURE_SIZE is MAX_TEXTURE_SIZE_2D or _3D, whichever
\* layer._dims.ndisplay selects, NoneSize when it is None.
set_node_data(v, layer, data, dtype, MAX_TEXTURE_SIZE) ==
    IF dtype = "other"
    THEN [v EXCEPT !.ret = [call |-> "_set_node_data", exc |-> "TypeError",
                            over |-> FALSE]]
    ELSE
    LET tex == TextureData(layer, data)
        over == MAX_TEXTURE_SIZE # NoneSize /\ any_greater(tex, MAX_TEXTURE_SIZE)
        r == IF MAX_TEXTURE_SIZE # NoneSize
             THEN downsample_texture(layer, v.scale, tex, MAX_TEXTURE_SIZE)
             ELSE [exc |-> "none", data |-> tex, scale |-> v.scale]
        scaled == [v EXCEPT !.scale = r.scale]
    IN  IF r.exc # "none"
        THEN [scaled EXCEPT !.ret = [call |-> "_set_node_data", exc |-> r.exc,
                                     over |-> over]]
        ELSE
        LET shown == IF get_node(layer.ndisplay) # v.vis.node
                     THEN on_display_change(scaled, layer, "view")
                     ELSE [scaled EXCEPT
                              !.vis = node_set_data(v.vis, v.vis.node, "view")]
        IN  [shown EXCEPT !.ret = [call |-> "_set_node_data", exc |-> "none",
                                   over |-> over]]

\* VispyImageLayer._on_data_change
on_data_change(v, layer, data, dtype, MAX_TEXTURE_SIZE) ==
    IF ~layer.loaded
    THEN [v EXCEPT !.ret = [call |-> "_on_data_change", exc |-> "none",
                            over |-> FALSE]]
    ELSE set_node_data(v, layer, data, dtype, MAX_TEXTURE_SIZE)

Visual == [vis |-> vis, scale |-> tile2data, ret |-> ret]

SetVisual(v) ==
    /\ vis' = v.vis
    /\ tile2data' = v.scale
    /\ ret' = v.ret

\* VispyImageLayer.__init__: the image node first, then _on_display_change()
\* and _on_data_change().
VispyImageLayerInit(layer, data, dtype, MAX_TEXTURE_SIZE) ==
    /\ lay = NoLayer
    /\ lay' = layer
    /\ LET v0 == [vis |-> [node |-> get_node(2), image |-> "initial",
                           volume |-> "initial"],
                  scale |-> ones(layer.ndim),
                  ret |-> [call |-> "__init__", exc |-> "none", over |-> FALSE]]
           v1 == on_display_change(v0, layer, "zeros")
           v2 == on_data_change(v1, layer, data, dtype, MAX_TEXTURE_SIZE)
       IN  SetVisual([v2 EXCEPT !.ret.call = "__init__"])
    /\ UNCHANGED <<keyVars, reqVars, dsVars, qtVars, vmVars, rdVars, svVars,
                   svgVars, thVars, qlVars, prVars>>

\* The data event of the layer: _on_data_change runs.
OnDataChange(data, dtype, MAX_TEXTURE_SIZE) ==
    /\ lay # NoLayer
    /\ SetVisual(on_data_change(Visual, lay, data, dtype, MAX_TEXTURE_SIZE))
    /\ UNCHANGED <<lay, keyVars, reqVars, dsVars, qtVars, vmVars, rdVars,
                   svVars, svgVars, thVars, qlVars, prVars>>

\* _on_display_change() runs, no data passed.
OnDisplayChange ==
    /\ lay # NoLayer
    /\ SetVisual([on_display_change(Visual, lay, "zeros") EXCEPT
                     !.ret = [call |-> "_on_display_change", exc |-> "none",
                              over |-> FALSE]])
    /\ UNCHANGED <<lay, keyVars, reqVars, dsVars, qtVars, vmVars, rdVars,
                   svVars, svgVars, thVars, qlVars, prVars>>

\* The layer finishes (or starts) loading: layer.loaded changes.
LayerSetLoaded(loaded) ==
    /\ lay # NoLayer
    /\ lay' = [lay EXCEPT !.loaded = loaded]
    /\ ret' = [call |-> "layer", exc |-> "none", over |-> FALSE]
    /\ UNCHANGED <<vis, tile2data, keyVars, reqVars, dsVars, qtVars, vmVars,
                   rdVars, svVars, svgVars, thVars, qlVars, prVars>>

\* The viewer switches between 2D and 3D: layer._dims.ndisplay changes.
LayerSetNdisplay(ndisplay) ==
    /\ lay # NoLayer
    /\ lay' = [lay EXCEPT !.ndisplay = ndisplay]
    /\ ret' = [call |-> "layer", exc |-> "none", over |-> FALSE]
    /\ UNCHANGED <<vis, tile2data, keyVars, reqVars, dsVars, qtVars, vmVars,
                   rdVars, svVars, svgVars, thVars, qlVars, prVars>>

NextImage ==
    \/ \E layer \in LayerStates :
           \E data \in DataViews(layer, MaxViewAxis), dtype \in DTypeKinds,
              MAX_TEXTURE_SIZE \in MaxTextureSizes :
               VispyImageLayerInit(layer, data, dtype, MAX_TEXTURE_SIZE)
    \/ \E data \in DataViews(lay, MaxViewAxis), dtype \in DTypeKinds,
          MAX_TEXTURE_SIZE \in MaxTextureSizes :
           OnDataChange(data, dtype, MAX_TEXTURE_SIZE)
    \/ OnDisplayChange
    \/ \E loaded \in BOOLEAN : LayerSetLoaded(loaded)
    \/ \E ndisplay \in {2, 3} : LayerSetNdisplay(ndisplay)

-----------------------------------------------------------------------------
(***************************************************************************)
(* Viewer (components/_viewer/model.py) and QtViewer.on_key_press          *)
(* (components/_viewer/view/main.py).  Layers are 1, 2, ...; 0 is None.    *)
(***************************************************************************)

QtLayers == {1, 2}
Keys == {"a", "b"}
Funcs == {"f", "g"}

\* What layer l offers the viewer: layer.status, .help, .cursor and
\* .interactive, different from layer to layer and from the viewer's defaults.
layer_name(l) == <<"layer 1", "layer 2", "layer 3", "layer 4">>[l]
layer_status(l) == layer_name(l)
layer_help(l) == layer_name(l)
layer_cursor(l) == IF l % 2 = 1 THEN "cross" ELSE "pointing"
layer_interactive(l) == l % 2 = 0

\* The lists of distinct layers.
LayerLists(layers) ==
    {q \in UNION {[1..n -> layers] : n \in 0..Cardinality(layers)} :
        \A i, j \in DOMAIN q : i # j => q[i] # q[j]}

\* Viewer._update_layer_selection: the topmost (last) selected layer of the
\* list becomes _top and lends the viewer its status, help, cursor and
\* interactive; with none selected the viewer takes its defaults.
update_layer_selection(layers, selected) ==
    IF \E i \in DOMAIN layers : layers[i] \in selected
    THEN LET top == CHOOSE i \in DOMAIN layers :
                        /\ layers[i] \in selected
                        /\ \A j \in DOMAIN layers :
                               layers[j] \in selected => j <= i
             layer == layers[top]
         IN  [status |-> layer_status(layer), help |-> layer_help(layer),
              cursor |-> layer_cursor(layer),
              interactive |-> layer_interactive(layer), top |-> layer]
    ELSE [status |-> "Ready", help |-> "", cursor |-> "standard",
          interactive |-> TRUE, top |-> 0]

NoKeyPress == [pressed |-> FALSE, text |-> "", auto |-> FALSE,
               bound |-> "", viewer |-> FALSE, layer |-> 0]

\* A layers added / removed / reordered or layer select / deselect event
\* arrives, the list and the selection being as given.
UpdateLayerSelection(layers, selected) ==
    /\ qv' = update_layer_selection(layers, selected)
    /\ kp' = NoKeyPress
    /\ UNCHANGED <<key_bindings>>
    /\ UNCHANGED <<keyVars, reqVars, dsVars, imgVars, vmVars, rdVars, svVars,
                   svgVars, thVars, qlVars, prVars>>

\* viewer.key_bindings[key] = func
BindKey(key, func) ==
    /\ key_bindings' = dict_set(key_bindings, key, func)
    /\ kp' = NoKeyPress
    /\ UNCHANGED <<qv>>
    /\ UNCHANGED <<keyVars, reqVars, dsVars, imgVars, vmVars, rdVars, svVars,
                   svgVars, thVars, qlVars, prVars>>

\* del viewer.key_bindings[key]
UnbindKey(key) ==
    /\ key \in DOMAIN key_bindings
    /\ key_bindings' = [k \in DOMAIN key_bindings \ {key} |-> key_bindings[k]]
    /\ kp' = NoKeyPress
    /\ UNCHANGED <<qv>>
    /\ UNCHANGED <<keyVars, reqVars, dsVars, imgVars, vmVars, rdVars, svVars,
                   svgVars, thVars, qlVars, prVars>>

\* QtViewer.on_key_press(event): event.text is text, auto is
\* event.native.isAutoRepeat().  kp records the function called with the
\* viewer and the layer whose on_key_press was called (0: none, which it
\* also is when viewer._top is None).
on_key_press(text, auto) ==
    IF text \in DOMAIN key_bindings /\ ~auto
    THEN [pressed |-> TRUE, text |-> text, auto |-> auto,
          bound |-> key_bindings[text], viewer |-> TRUE, layer |-> 0]
    ELSE [pressed |-> TRUE, text |-> text, auto |-> auto,
          bound |-> "", viewer |-> FALSE, layer |-> qv.top]

OnKeyPress(text, auto) ==
    /\ kp' = on_key_press(text, auto)
    /\ UNCHANGED <<key_bindings, qv>>
    /\ UNCHANGED <<keyVars, reqVars, dsVars, imgVars, vmVars, rdVars, svVars,
                   svgVars, thVars, qlVars, prVars>>

QtInit ==
    /\ key_bindings = <<>>
    /\ qv = update_layer_selection(<<>>, {})
    /\ kp = NoKeyPress

NextKeyPress ==
    \/ \E layers \in LayerLists(QtLayers), selected \in SUBSET QtLayers :
           UpdateLayerSelection(layers, selected)
    \/ \E key \in Keys, func \in Funcs : BindKey(key, func)
    \/ \E key \in Keys : UnbindKey(key)
    \/ \E text \in Keys, auto \in BOOLEAN : OnKeyPress(text, auto)

-----------------------------------------------------------------------------
(***************************************************************************)
(* ViewerModel: the layer list, the active layer and the dims range.       *)
(* A layer is its number; layer_ndim[l] = 0 says layer l has not been      *)
(* constructed.  viewer_layers is self.layers, vm the viewer's _status,    *)
(* _help, _cursor, _interactive and _active_layer, dims_range is           *)
(* self.dims.range.  last records the last event and the length the dims   *)
(* range had before it.                                                    *)
(***************************************************************************)

\* Largest number of layers constructed.
MaxLayers == 2
\* Largest ndim of a layer's data.
MaxNdim == 2

ViewerLayers == 1..MaxLayers
Ndims == 1..MaxNdim

\* math.inf, as a number larger than every range value of the model.
inf == 1000000

Min(a, b) == IF a < b THEN a ELSE b
Max(a, b) == IF a > b THEN a ELSE b

\* seq[::-1]
Reversed(seq) == [i \in 1..Len(seq) |-> seq[Len(seq) + 1 - i]]

\* layer.range: one (min, max, step) per axis of the layer's data.
layer_range(l, ndim) == [i \in 1..ndim |-> <<0, 10 * l + i, 1>>]

\* zip_longest(a, b, fillvalue=fillvalue)
zip_longest(a, b, fillvalue) ==
    [i \in 1..Max(Len(a), Len(b)) |->
        <<IF i <= Len(a) THEN a[i] ELSE fillvalue,
          IF i <= Len(b) THEN b[i] ELSE fillvalue>>]

\* zip(a, b), which stops at the shorter of the two.
zip_shortest(a, b) ==
    [i \in 1..Min(Len(a), Len(b)) |-> <<a[i], b[i]>>]

\* ViewerModel._calc_layers_num_dims: the loop from layer i on.
RECURSIVE num_dims_from(_, _, _, _)
num_dims_from(layers, ndim, i, max_dims) ==
    IF i > Len(layers) THEN max_dims
    ELSE num_dims_from(layers, ndim, i + 1,
                       IF ndim[layers[i]] > max_dims THEN ndim[layers[i]]
                       ELSE max_dims)

calc_layers_num_dims(layers, ndim) == num_dims_from(layers, ndim, 1, 0)

\* One pass of the loop of _calc_layers_ranges over the pairs of zipped.
merge_ranges(zipped) ==
    [i \in 1..Len(zipped) |->
        <<Min(zipped[i][1][1], zipped[i][2][1]),
          Max(zipped[i][1][2], zipped[i][2][2]),
          Min(zipped[i][1][3], zipped[i][2][3])>>]

RECURSIVE ranges_zip_from(_, _, _, _)
ranges_zip_from(layers, ndim, i, ranges) ==
    IF i > Len(layers) THEN ranges
    ELSE ranges_zip_from(layers, ndim, i + 1,
             merge_ranges(zip_shortest(
                 ranges, Reversed(layer_range(layers[i], ndim[layers[i]])))))

RECURSIVE ranges_from(_, _, _, _)
ranges_from(layers, ndim, i, ranges) ==
    IF i > Len(layers) THEN ranges
    ELSE ranges_from(layers, ndim, i + 1,
             merge_ranges(zip_longest(
                 ranges, Reversed(layer_range(layers[i], ndim[layers[i]])),
                 <<inf, -inf, inf>>)))

\* _calc_layers_ranges with zip in place of zip_longest.
calc_layers_ranges_zip(layers, ndim) ==
    Reversed(ranges_zip_from(layers, ndim, 1,
        [i \in 1..calc_layers_num_dims(layers, ndim) |-> <<inf, -inf, inf>>]))

\* ViewerModel._calc_layers_ranges
calc_layers_ranges(layers, ndim) ==
    Reversed(ranges_from(layers, ndim, 1,
        [i \in 1..calc_layers_num_dims(layers, ndim) |-> <<inf, -inf, inf>>]))

\* ViewerModel._on_layers_change: the value given to self.dims.range.
on_layers_change(layers, ndim) == calc_layers_ranges(layers, ndim)

\* The loop of _update_active_layer from layer i on; active_layer is None
\* or a layer.
RECURSIVE active_layer_from(_, _, _, _)
active_layer_from(layers, selected, i, active_layer) ==
    IF i > Len(layers) THEN active_layer
    ELSE IF active_layer = None /\ layers[i] \in selected
         THEN active_layer_from(layers, selected, i + 1, layers[i])
    ELSE IF active_layer # None /\ layers[i] \in selected
         THEN None
    ELSE active_layer_from(layers, selected, i + 1, active_layer)

\* The loop without its elif branch: the first selected layer stays.
RECURSIVE active_layer_first_from(_, _, _, _)
active_layer_first_from(layers, selected, i, active_layer) ==
    IF i > Len(layers) THEN active_layer
    ELSE IF active_layer = None /\ layers[i] \in selected
         THEN active_layer_first_from(layers, selected, i + 1, layers[i])
    ELSE active_layer_first_from(layers, selected, i + 1, active_layer)

\* What _update_active_layer stores through the setters for active_layer.
viewer_for(active_layer) ==
    IF active_layer = None
    THEN [status |-> "Ready", help |-> "", cursor |-> "standard",
          interactive |-> TRUE, active_layer |-> None]
    ELSE [status |-> layer_status(active_layer),
          help |-> layer_help(active_layer),
          cursor |-> layer_cursor(active_layer),
          interactive |-> layer_interactive(active_layer),
          active_layer |-> active_layer]

update_active_layer_first_selected(layers, selected) ==
    viewer_for(active_layer_first_from(layers, selected, 1, None))

\* ViewerModel._update_active_layer
update_active_layer(layers, selected) ==
    viewer_for(active_layer_from(layers, selected, 1, None))

InList(l) == \E i \in 1..Len(viewer_layers) : viewer_layers[i] = l

Event(name) == [event |-> name, was |-> Len(dims_range)]

\* viewer.add_layer(layer) for a layer of ndim dimensions, selected or not:
\* the connections, then layers.append, whose added event runs
\* _on_layers_change and _update_active_layer.  A layer taken out of the list
\* before comes back as it is.
AddLayer(l, ndim, sel) ==
    /\ ~InList(l)
    /\ l \in connected => (ndim = layer_ndim[l] /\ sel = (l \in layer_selected))
    /\ connected' = connected \cup {l}
    /\ layer_ndim' = [layer_ndim EXCEPT ![l] = ndim]
    /\ layer_selected' = IF sel THEN layer_selected \cup {l}
                         ELSE layer_selected \ {l}
    /\ viewer_layers' = Append(viewer_layers, l)
    /\ dims_range' = on_layers_change(viewer_layers', layer_ndim')
    /\ vm' = update_active_layer(viewer_layers', layer_selected')
    /\ last' = Event("added")
    /\ UNCHANGED <<keyVars, reqVars, dsVars, imgVars, qtVars, rdVars, svVars,
                   svgVars, thVars, qlVars, prVars>>

\* viewer.layers.remove(layer): the removed event runs _on_layers_change and
\* _update_active_layer.  The layer's own events stay connected.
RemoveLayer(l) ==
    /\ InList(l)
    /\ viewer_layers' = SelectSeq(viewer_layers, LAMBDA x : x # l)
    /\ dims_range' = on_layers_change(viewer_layers', layer_ndim)
    /\ vm' = update_active_layer(viewer_layers', layer_selected)
    /\ last' = Event("removed")
    /\ UNCHANGED <<layer_selected, layer_ndim, connected>>
    /\ UNCHANGED <<keyVars, reqVars, dsVars, imgVars, qtVars, rdVars, svVars,
                   svgVars, thVars, qlVars, prVars>>

\* The list is put in another order: the reordered event runs
\* _update_active_layer only.
ReorderLayers(order) ==
    /\ order # viewer_layers
    /\ Len(order) = Len(viewer_layers)
    /\ \A i \in 1..Len(order) : InList(order[i])
    /\ viewer_layers' = order
    /\ vm' = update_active_layer(viewer_layers', layer_selected)
    /\ last' = Event("reordered")
    /\ UNCHANGED <<layer_selected, layer_ndim, connected, dims_range>>
    /\ UNCHANGED <<keyVars, reqVars, dsVars, imgVars, qtVars, rdVars, svVars,
                   svgVars, thVars, qlVars, prVars>>

\* layer.selected = True on a connected layer: its select event runs
\* _update_active_layer.
LayerSelect(l) ==
    /\ l \in connected
    /\ l \notin layer_selected
    /\ layer_selected' = layer_selected \cup {l}
    /\ vm' = update_active_layer(viewer_layers, layer_selected')
    /\ last' = Event("select")
    /\ UNCHANGED <<viewer_layers, layer_ndim, connected, dims_range>>
    /\ UNCHANGED <<keyVars, reqVars, dsVars, imgVars, qtVars, rdVars, svVars,
                   svgVars, thVars, qlVars, prVars>>

\* layer.selected = False on a connected layer: its deselect event runs
\* _update_active_layer.
LayerDeselect(l) ==
    /\ l \in connected
    /\ l \in layer_selected
    /\ layer_selected' = layer_selected \ {l}
    /\ vm' = update_active_layer(viewer_layers, layer_selected')
    /\ last' = Event("deselect")
    /\ UNCHANGED <<viewer_layers, layer_ndim, connected, dims_range>>
    /\ UNCHANGED <<keyVars, reqVars, dsVars, imgVars, qtVars, rdVars, svVars,
                   svgVars, thVars, qlVars, prVars>>

\* layer.data = data of ndim dimensions on a connected layer: its data event
\* runs _on_layers_change.
LayerSetData(l, ndim) ==
    /\ l \in connected
    /\ layer_ndim' = [layer_ndim EXCEPT ![l] = ndim]
    /\ dims_range' = on_layers_change(viewer_layers, layer_ndim')
    /\ last' = Event("data")
    /\ UNCHANGED <<viewer_layers, layer_selected, connected, vm>>
    /\ UNCHANGED <<keyVars, reqVars, dsVars, imgVars, qtVars, rdVars, svVars,
                   svgVars, thVars, qlVars, prVars>>

\* A connected layer emits its status event: _update_status stores
\* event.status, whichever layer is active.
LayerStatusEvent(l) ==
    /\ l \in connected
    /\ vm' = [vm EXCEPT !.status = layer_status(l)]
    /\ last' = Event("status")
    /\ UNCHANGED <<viewer_layers, layer_selected, layer_ndim, connected,
                   dims_range>>
    /\ UNCHANGED <<keyVars, reqVars, dsVars, imgVars, qtVars, rdVars, svVars,
                   svgVars, thVars, qlVars, prVars>>

\* ViewerModel.__init__: Dims(2), an empty LayerList and the defaults.
VmInit ==
    /\ viewer_layers = <<>>
    /\ layer_selected = {}
    /\ layer_ndim = [l \in ViewerLayers |-> 0]
    /\ connected = {}
    /\ vm = [status |-> "Ready", help |-> "", cursor |-> "standard",
             interactive |-> TRUE, active_layer |-> None]
    /\ dims_range = <<<<0, 2, 1>>, <<0, 2, 1>>>>
    /\ last = [event |-> "init", was |-> 2]

NextViewer ==
    \/ \E l \in ViewerLayers, ndim \in Ndims, sel \in BOOLEAN :
           AddLayer(l, ndim, sel)
    \/ \E l \in ViewerLayers : RemoveLayer(l)
    \/ \E order \in LayerLists(ViewerLayers) : ReorderLayers(order)
    \/ \E l \in ViewerLayers : LayerSelect(l)
    \/ \E l \in ViewerLayers : LayerDeselect(l)
    \/ \E l \in ViewerLayers, ndim \in Ndims : LayerSetData(l, ndim)
    \/ \E l \in ViewerLayers : LayerStatusEvent(l)

-----------------------------------------------------------------------------
(***************************************************************************)
(* plugins.io.read_data_with_plugins.                                      *)
(* The napari_get_reader implementations are numbered in hook order.  For  *)
(* the path at hand implementation i either declines (napari_get_reader    *)
(* returns None), raises, or returns a reader function; the reader         *)
(* function returns LayerData, returns None or raises.  The LayerData of   *)
(* implementation i is the number i.                                       *)
(***************************************************************************)

\* Largest number of napari_get_reader implementations.
MaxImpls == 3
\* The count of calls of one reader function stops growing here.
MaxCalls == 2

HookOutcomes == {"declines", "raises", "reader"}
ReaderOutcomes == {"data", "none", "raises"}
ReaderImpls == [hook : HookOutcomes, reader : ReaderOutcomes]
ReaderConfigs == UNION {[1..n -> ReaderImpls] : n \in 0..MaxImpls}

InSeq(x, seq) == \E k \in 1..Len(seq) : seq[k] = x

\* hook_caller.call_with_result_obj(path=path, _skip_impls=skip): the first
\* implementation in hook order, those of skip left out, that does not
\* decline; 0 when every one declines.
RECURSIVE first_result_from(_, _, _)
first_result_from(impls, skip, i) ==
    IF i > Len(impls) THEN 0
    ELSE IF ~InSeq(i, skip) /\ impls[i].hook # "declines" THEN i
    ELSE first_result_from(impls, skip, i + 1)

call_with_result_obj(impls, skip) == first_result_from(impls, skip, 1)

\* The except clause that leaves the skip list as it is.
reader_raised_not_skipped(skip, implementation) == skip

\* The except clause: skip_impls.append(result.implementation)
reader_raised(skip, implementation) == Append(skip, implementation)

\* read_data_with_plugins(path) is called, once in a behaviour, with the
\* implementations impls registered: skip_impls = [].
ReadDataWithPlugins(impls) ==
    /\ read_pc = "idle"
    /\ readers' = impls
    /\ skip_impls' = <<>>
    /\ reader_calls' = [i \in 1..Len(impls) |-> 0]
    /\ read_pc' = "loop"
    /\ read_ret' = None
    /\ UNCHANGED <<keyVars, reqVars, dsVars, imgVars, qtVars, vmVars, svVars,
                   svgVars, thVars, qlVars, prVars>>

\* One turn of the while loop.  result.result raises what a
\* napari_get_reader implementation raised; no reader returns None; the
\* reader is called, its value returned or its exception caught.
ReadLoop ==
    /\ read_pc = "loop"
    /\ LET impl == call_with_result_obj(readers, skip_impls) IN
       IF impl = 0
       THEN /\ read_pc' = "returned"
            /\ read_ret' = None
            /\ UNCHANGED <<skip_impls, reader_calls>>
       ELSE IF readers[impl].hook = "raises"
       THEN /\ read_pc' = "hook raised"
            /\ UNCHANGED <<read_ret, skip_impls, reader_calls>>
       ELSE /\ reader_calls' = [reader_calls EXCEPT ![impl] =
                                    IF @ < MaxCalls THEN @ + 1 ELSE @]
            /\ IF readers[impl].reader = "raises"
               THEN /\ skip_impls' = reader_raised(skip_impls, impl)
                    /\ UNCHANGED <<read_pc, read_ret>>
               ELSE /\ read_pc' = "returned"
                    /\ read_ret' = IF readers[impl].reader = "data"
                                   THEN impl ELSE None
                    /\ UNCHANGED skip_impls
    /\ UNCHANGED readers
    /\ UNCHANGED <<keyVars, reqVars, dsVars, imgVars, qtVars, vmVars, svVars,
                   svgVars, thVars, qlVars, prVars>>

RdInit ==
    /\ readers = <<>>
    /\ skip_impls = <<>>
    /\ reader_calls = <<>>
    /\ read_pc = "idle"
    /\ read_ret = None

NextRead ==
    \/ \E impls \in ReaderConfigs : ReadDataWithPlugins(impls)
    \/ ReadLoop


-----------------------------------------------------------------------------
(***************************************************************************)
(* plugins.io.save_layers.                                                 *)
(* A layer is its type string.  The napari_get_writer implementations are  *)
(* the plugins 1 and 2 in hook order; plugin names are these numbers and   *)
(* plugin None is 0.  For the call at hand a napari_write_<type> hook      *)
(* returns a path, None or '' or raises; napari_get_writer of a plugin     *)
(* returns None, something not callable or its writer function, or raises; *)
(* a writer function returns a list of paths or raises.                    *)
(***************************************************************************)

\* Largest number of layers given to save_layers.
MaxSaveLayers == 3

LayerTypes == {"image", "points"}
SaveLayerLists == UNION {[1..n -> LayerTypes] : n \in 0..MaxSaveLayers}
WriterPlugins == {1, 2}
NoPlugin == 0
WriteHookOutcomes == {"path", "none", "empty string", "raises"}
GetWriterOutcomes == {"none", "not callable", "writer", "raises"}
WriterOutcomes == {"paths", "no paths", "raises"}

\* The outcome of a call: the exception raised and the implementation it
\* names, or the value returned; the napari_write_<type> hooks called, the
\* number of napari_get_writer hook calls and of writer function calls.
Outcome(exc, impl, value, hooks, get_writer_calls, writer_calls) ==
    [exc |-> exc, impl |-> impl, value |-> value, write_hooks |-> hooks,
     get_writer_calls |-> get_writer_calls, writer_calls |-> writer_calls]

\* The hook call of napari_get_writer: for _plugin=plugin_name the answer of
\* that plugin, otherwise the first answer in hook order that is not None,
\* with the implementation that gave it (0 with no answer).
RECURSIVE first_writer_from(_, _)
first_writer_from(gw, i) ==
    IF i \notin WriterPlugins THEN [result |-> "none", implementation |-> 0]
    ELSE IF gw[i] # "none" THEN [result |-> gw[i], implementation |-> i]
    ELSE first_writer_from(gw, i + 1)

get_writer(gw, plugin_name) ==
    IF plugin_name # NoPlugin
    THEN [result |-> gw[plugin_name], implementation |-> plugin_name]
    ELSE first_writer_from(gw, 1)

\* A test that takes whatever the hook returned for a writer function.
callable_anything(writer_function) == writer_function # "none"

\* callable(writer_function)
callable(writer_function) == writer_function = "writer"

\* _write_multiple_layers_with_plugins(path, layers, plugin_name=plugin_name)
write_multiple_layers_with_plugins(layers, plugin_name, gw, wr) ==
    LET got == get_writer(gw, plugin_name)
        writer_function == got.result
        implementation == got.implementation
    IN  IF writer_function = "raises"
        THEN Outcome("PluginCallError", implementation, <<>>, <<>>, 1, 0)
        ELSE IF ~callable(writer_function)
        THEN Outcome("ValueError", 0, <<>>, <<>>, 1, 0)
        ELSE IF writer_function # "writer" \/ wr[implementation] = "raises"
        THEN Outcome("PluginCallError", implementation, <<>>, <<>>, 1, 1)
        ELSE Outcome("none", 0,
                     IF wr[implementation] = "paths"
                     THEN [i \in 1..Len(layers) |-> "layer file"] ELSE <<>>,
                     <<>>, 1, 1)

\* _write_single_layer_with_plugins(path, layer, plugin_name=plugin_name):
\* value is what the napari_write_<layer._type_string> hook returns, "path",
\* "none" for None or "empty string" for ''.
write_single_layer_with_plugins(layer, plugin_name, wh) ==
    IF wh = "raises"
    THEN Outcome("PluginCallError", plugin_name, "none", <<layer>>, 0, 0)
    ELSE Outcome("none", 0, wh, <<layer>>, 0, 0)

\* bool(written): None and '' are false.
truthy(written) == written \notin {"none", "empty string"}

\* save_layers that takes the single layer branch for any layers at all.
save_layers_single_first(layers, plugin, wh, gw, wr) ==
    IF Len(layers) >= 1
    THEN LET written ==
                 write_single_layer_with_plugins(layers[1], plugin, wh)
         IN  IF written.exc # "none" THEN written
             ELSE [written EXCEPT !.value =
                       IF truthy(written.value)
                       THEN <<written.value>> ELSE <<>>]
    ELSE Outcome("none", 0, <<>>, <<>>, 0, 0)

\* save_layers(path, layers, plugin=plugin)
save_layers(layers, plugin, wh, gw, wr) ==
    IF Len(layers) > 1
    THEN write_multiple_layers_with_plugins(layers, plugin, gw, wr)
    ELSE IF Len(layers) = 1
    THEN LET written ==
                 write_single_layer_with_plugins(layers[1], plugin, wh)
         IN  IF written.exc # "none" THEN written
             ELSE [written EXCEPT !.value =
                       IF truthy(written.value)
                       THEN <<written.value>> ELSE <<>>]
    ELSE Outcome("none", 0, <<>>, <<>>, 0, 0)

NoSave == [called |-> FALSE, layers |-> <<>>, plugin |-> NoPlugin,
           wh |-> "none", gw |-> <<>>, wr |-> <<>>,
           out |-> Outcome("none", 0, <<>>, <<>>, 0, 0)]

\* One call of save_layers, with what the plugins do for it.
SaveLayers(layers, plugin, wh, gw, wr) ==
    /\ ~sv.called
    /\ sv' = [called |-> TRUE, layers |-> layers, plugin |-> plugin,
              wh |-> wh, gw |-> gw, wr |-> wr,
              out |-> save_layers(layers, plugin, wh, gw, wr)]
    /\ UNCHANGED <<keyVars, reqVars, dsVars, imgVars, qtVars, vmVars, rdVars,
                   svgVars, thVars, qlVars, prVars>>

SvInit == sv = NoSave

NextSave ==
    /\ ~sv.called
    /\ \E layers \in SaveLayerLists, plugin \in {NoPlugin} \cup WriterPlugins,
          wh \in WriteHookOutcomes,
          gw \in [WriterPlugins -> GetWriterOutcomes],
          wr \in [WriterPlugins -> WriterOutcomes] :
           SaveLayers(layers, plugin, wh, gw, wr)

-----------------------------------------------------------------------------
(***************************************************************************)
(* ViewerModel.to_svg.                                                     *)
(* layer_visible holds the layers whose visible is True.  An XML element   *)
(* of a layer is the pair of the layer and its place in the layer's        *)
(* to_xml_list().  svg is the outcome of the one call of to_svg that is    *)
(* followed.                                                               *)
(***************************************************************************)

\* layer.to_xml_list(): layers have one, two or no elements.
layer_to_xml_list(l) == [k \in 1..(l % 3) |-> <<l, k>>]

\* The view_box arguments: None, or (min-x, min-y, width, height).
ViewBoxes == {<<>>, <<1, 2, 30, 40>>}

\* The loop of to_svg over self.layers from layer i on, that appends the
\* elements of every layer, visible or not.
RECURSIVE xml_of_all_from(_, _, _, _)
xml_of_all_from(layers, visible, i, xml_transform) ==
    IF i > Len(layers) THEN xml_transform
    ELSE xml_of_all_from(layers, visible, i + 1,
                         xml_transform \o layer_to_xml_list(layers[i]))

\* The loop of to_svg over self.layers from layer i on: the children
\* appended to xml_transform.
RECURSIVE xml_of_visible_from(_, _, _, _)
xml_of_visible_from(layers, visible, i, xml_transform) ==
    IF i > Len(layers) THEN xml_transform
    ELSE xml_of_visible_from(layers, visible, i + 1,
             IF layers[i] \in visible
             THEN xml_transform \o layer_to_xml_list(layers[i])
             ELSE xml_transform)

xml_transform_all_layers(layers, visible) ==
    xml_of_all_from(layers, visible, 1, <<>>)

xml_transform_children(layers, visible) ==
    xml_of_visible_from(layers, visible, 1, <<>>)

\* seq[-2:]
LastTwo(seq) == IF Len(seq) <= 2 THEN seq ELSE SubSeq(seq, Len(seq) - 1, Len(seq))

\* ViewerModel._calc_bbox: the minima and the maxima of the layers' ranges.
calc_bbox(layers, ndim) ==
    LET ranges == calc_layers_ranges(layers, ndim) IN
    [min_shape |-> [i \in 1..Len(ranges) |-> ranges[i][1]],
     max_shape |-> [i \in 1..Len(ranges) |-> ranges[i][2]]]

NoSvg == [called |-> FALSE, view_box |-> <<>>, exc |-> "none", height |-> 0,
          width |-> 0, translate |-> <<0, 0>>, group |-> <<>>]

\* to_svg(view_box=view_box): with no view_box the shape comes from the last
\* two axes of the bounding box, and shape[1] is an IndexError when there
\* are fewer than two.
to_svg(layers, ndim, visible, view_box) ==
    LET bbox == calc_bbox(layers, ndim)
        min_shape == IF view_box = <<>> THEN LastTwo(bbox.min_shape)
                     ELSE SubSeq(view_box, 1, 2)
        shape == IF view_box = <<>>
                 THEN [i \in 1..Len(min_shape) |->
                          LastTwo(bbox.max_shape)[i] - min_shape[i]]
                 ELSE SubSeq(view_box, 3, 4)
    IN  IF Len(shape) < 2
        THEN [NoSvg EXCEPT !.called = TRUE, !.view_box = view_box,
                           !.exc = "IndexError"]
        ELSE [called |-> TRUE, view_box |-> view_box, exc |-> "none",
              height |-> shape[1], width |-> shape[2],
              translate |-> <<-min_shape[2], -min_shape[1]>>,
              group |-> xml_transform_children(layers, visible)]

\* layer.visible = visible
LayerSetVisible(l, visible) ==
    /\ (l \in layer_visible) # visible
    /\ layer_visible' = IF visible THEN layer_visible \cup {l}
                        ELSE layer_visible \ {l}
    /\ UNCHANGED svg
    /\ UNCHANGED <<keyVars, reqVars, dsVars, imgVars, qtVars, vmVars, rdVars,
                   svVars, thVars, qlVars, prVars>>

\* viewer.to_svg(view_box=view_box)
ToSvg(view_box) ==
    /\ svg' = to_svg(viewer_layers, layer_ndim, layer_visible, view_box)
    /\ UNCHANGED layer_visible
    /\ UNCHANGED <<keyVars, reqVars, dsVars, imgVars, qtVars, vmVars, rdVars,
                   svVars, thVars, qlVars, prVars>>

SvgInit ==
    /\ layer_visible = ViewerLayers
    /\ svg = NoSvg

\* The viewer until to_svg is called.
NextSvg ==
    \/ \E l \in ViewerLayers, ndim \in Ndims :
           ~svg.called /\ AddLayer(l, ndim, FALSE)
    \/ \E l \in ViewerLayers : ~svg.called /\ RemoveLayer(l)
    \/ \E order \in LayerLists(ViewerLayers) :
           ~svg.called /\ ReorderLayers(order)
    \/ \E l \in ViewerLayers, visible \in BOOLEAN :
           ~svg.called /\ LayerSetVisible(l, visible)
    \/ \E view_box \in ViewBoxes : ~svg.called /\ ToSvg(view_box)

-----------------------------------------------------------------------------
(***************************************************************************)
(* ViewerModel.theme and ViewerModel.palette.                              *)
(* themes is the dict of the class, in insertion order, as a sequence of   *)
(* (name, palette) entries; a palette is named by a string.  palette is    *)
(* self._palette.  th records the last assignment: the property, the value *)
(* assigned, the palette before it, the exception and the number of        *)
(* palette events emitted.                                                 *)
(***************************************************************************)

ThemeNames == {"dark", "light", "custom", "missing"}
Palettes == {"dark palette", "light palette", "custom palette"}
\* None where a theme name is expected, and where a palette is.
NoneTheme == "None"
NonePalette == "None"

\* name in themes
has_theme(dict, name) == \E i \in 1..Len(dict) : dict[i].name = name

\* themes[name], for a name in themes
themes_getitem(dict, name) ==
    dict[CHOOSE i \in 1..Len(dict) : dict[i].name = name].palette

\* themes[name] = value: a new key goes to the end.
themes_setitem(dict, name, value) ==
    IF has_theme(dict, name)
    THEN [i \in 1..Len(dict) |->
             IF dict[i].name = name THEN [name |-> name, palette |-> value]
             ELSE dict[i]]
    ELSE Append(dict, [name |-> name, palette |-> value])

\* The theme getter: the loop over themes.items() from entry i on; the
\* function falls off its end, returning None, when no palette matches.
RECURSIVE theme_from(_, _, _)
theme_from(dict, current, i) ==
    IF i > Len(dict) THEN NoneTheme
    ELSE IF dict[i].palette = current THEN dict[i].name
    ELSE theme_from(dict, current, i + 1)

theme_getter(dict, current) == theme_from(dict, current, 1)

\* The palette setter: what _palette becomes and the events emitted.
palette_setter(current, value) ==
    IF value = current
    THEN [palette |-> current, exc |-> "none", events |-> 0]
    ELSE [palette |-> value, exc |-> "none", events |-> 1]

\* A theme setter that takes themes.get(theme) for the palette.
theme_setter_get(dict, current, theme) ==
    IF theme = theme_getter(dict, current)
    THEN [palette |-> current, exc |-> "none", events |-> 0]
    ELSE palette_setter(current, IF has_theme(dict, theme)
                                 THEN themes_getitem(dict, theme)
                                 ELSE NonePalette)

\* The theme setter.
theme_setter(dict, current, theme) ==
    IF theme = theme_getter(dict, current)
    THEN [palette |-> current, exc |-> "none", events |-> 0]
    ELSE IF ~has_theme(dict, theme)
    THEN [palette |-> current, exc |-> "ValueError", events |-> 0]
    ELSE palette_setter(current, themes_getitem(dict, theme))

Assigned(property, value, result) ==
    [property |-> property, value |-> value, before |-> palette,
     exc |-> result.exc, events |-> result.events]

\* viewer.theme = theme
SetTheme(theme) ==
    LET result == theme_setter(themes, palette, theme) IN
    /\ palette' = result.palette
    /\ th' = Assigned("theme", theme, result)
    /\ UNCHANGED themes
    /\ UNCHANGED <<keyVars, reqVars, dsVars, imgVars, qtVars, vmVars, rdVars,
                   svVars, svgVars, qlVars, prVars>>

\* viewer.palette = value
SetPalette(value) ==
    LET result == palette_setter(palette, value) IN
    /\ palette' = result.palette
    /\ th' = Assigned("palette", value, result)
    /\ UNCHANGED themes
    /\ UNCHANGED <<keyVars, reqVars, dsVars, imgVars, qtVars, vmVars, rdVars,
                   svVars, svgVars, qlVars, prVars>>

\* viewer.themes[name] = value, for a theme that is not a preset.
SetThemesItem(name, value) ==
    /\ themes' = themes_setitem(themes, name, value)
    /\ th' = Assigned("themes", name, [exc |-> "none", events |-> 0])
    /\ UNCHANGED palette
    /\ UNCHANGED <<keyVars, reqVars, dsVars, imgVars, qtVars, vmVars, rdVars,
                   svVars, svgVars, qlVars, prVars>>

\* After __init__: _palette = None, then self.theme = 'dark'.
ThInit ==
    /\ themes = <<[name |-> "dark", palette |-> "dark palette"],
                  [name |-> "light", palette |-> "light palette"]>>
    /\ palette = "dark palette"
    /\ th = [property |-> "theme", value |-> "dark", before |-> NonePalette,
             exc |-> "none", events |-> 1]

NextTheme ==
    \/ \E theme \in ThemeNames \cup {NoneTheme} : SetTheme(theme)
    \/ \E value \in Palettes \cup {NonePalette} : SetPalette(value)
    \/ \E value \in Palettes : SetThemesItem("custom", value)

-----------------------------------------------------------------------------
(***************************************************************************)
(* QtLayerList.                                                            *)
(* ql_layers is self.layers, first layer first.  ql_items are the items of *)
(* the list widget, row 0 first; the item made for a layer is that layer's *)
(* number.  ql_selected are the selected items.  Model indexes and rows    *)
(* count from 0 as in the code: row r is ql_items[r + 1].  ql_emitted is   *)
(* the selection event the last handler emitted through _selectionChanged, *)
(* ql_last the last handler with its arguments and the items before it.    *)
(***************************************************************************)

\* Largest number of layers the list widget follows.
MaxItems == 3

ListLayers == 1..MaxItems
ModelIndexes == 0..(MaxItems - 1)

\* list.insert(index, x), index from 0.
list_insert(seq, index, x) ==
    SubSeq(seq, 1, index) \o <<x>> \o SubSeq(seq, index + 1, Len(seq))

\* The list without its element at index, from 0.
list_delete(seq, index) ==
    SubSeq(seq, 1, index) \o SubSeq(seq, index + 2, Len(seq))

\* QListWidget.insertItem(row, item): a row before the first is the first,
\* a row after the last is the end.
insertItem(items, row, item) ==
    list_insert(items, IF row < 0 THEN 0
                       ELSE IF row > Len(items) THEN Len(items) ELSE row,
                item)

\* QListWidget.takeItem(row): the item taken (0 for a row that is not there)
\* and the items left.
takeItem(items, row) ==
    IF row < 0 \/ row >= Len(items) THEN [item |-> 0, items |-> items]
    ELSE [item |-> items[row + 1], items |-> list_delete(items, row)]

\* self.row(item)
row_of(items, item) ==
    (CHOOSE r \in 1..Len(items) : items[r] = item) - 1

\* _selectionChanged: the model indexes of the selected items, as a set.
selectionChanged(items, selected) ==
    {(Len(items) - 1) - row_of(items, item) : item \in selected}

NoEvent == [emitted |-> FALSE, selected |-> {}]
SelectionEvent(items, selected) ==
    [emitted |-> TRUE, selected |-> selectionChanged(items, selected)]

\* _on_selection_change that tests the row, not total - index.
on_selection_change_by_row(items, selection) ==
    {items[index + 1] : index \in
        {i \in 0..(Len(items) - 1) : i \in selection}}

\* _on_selection_change(selection): the items selected afterwards.
on_selection_change(items, selection) ==
    {items[index + 1] : index \in
        {i \in 0..(Len(items) - 1) : ((Len(items) - 1) - i) \in selection}}

\* _on_added_change((layer, index)): the items afterwards.
on_added_change(items, layer, index) ==
    insertItem(items, (Len(items) - 1) - index, layer)

\* _on_removed_change((layer, index)): takeItem(total - index).
on_removed_change(items, index) ==
    takeItem(items, (Len(items) - 1) - index)

\* _on_reordered_change((old_indices, new_indices)): the loop from pair k
\* on, total being the count when the handler was entered.
RECURSIVE reorder_from(_, _, _, _, _)
reorder_from(items, total, old_indices, new_indices, k) ==
    IF k > Len(old_indices) \/ k > Len(new_indices) THEN items
    ELSE LET taken == takeItem(items, total - old_indices[k]) IN
         reorder_from(IF taken.item = 0 THEN taken.items
                      ELSE insertItem(taken.items, total - new_indices[k],
                                      taken.item),
                      total, old_indices, new_indices, k + 1)

on_reordered_change(items, old_indices, new_indices) ==
    reorder_from(items, Len(items) - 1, old_indices, new_indices, 1)

\* The record of a handler; the items before it are kept for a reordering.
Handled(op, selection, old_indices, new_indices) ==
    [op |-> op, selection |-> selection, old |-> old_indices,
     new |-> new_indices,
     before |-> IF op = "reordered" THEN ql_items ELSE <<>>]

\* A layer that is not in the list and has no item is put into self.layers
\* at index and the added event is delivered:
\* _on_added_change((layer, index)).  Selecting the new item emits the
\* selection.
QlAdded(layer, index, selected) ==
    /\ \A i \in 1..Len(ql_layers) : ql_layers[i] # layer
    /\ \A r \in 1..Len(ql_items) : ql_items[r] # layer
    /\ index <= Len(ql_layers)
    /\ ql_layers' = list_insert(ql_layers, index, layer)
    /\ ql_items' = on_added_change(ql_items, layer, index)
    /\ ql_selected' = IF selected THEN ql_selected \cup {layer}
                      ELSE ql_selected
    /\ ql_emitted' = IF selected THEN SelectionEvent(ql_items', ql_selected')
                     ELSE NoEvent
    /\ ql_last' = Handled("added", {}, <<>>, <<>>)
    /\ UNCHANGED <<keyVars, reqVars, dsVars, imgVars, qtVars, vmVars, rdVars,
                   svVars, svgVars, thVars, prVars>>

\* The layer at index is taken out of self.layers and the removed event is
\* delivered: _on_removed_change((layer, index)).  An item that is taken
\* out is no longer selected.
QlRemoved(index) ==
    /\ index < Len(ql_layers)
    /\ ql_layers' = list_delete(ql_layers, index)
    /\ LET taken == on_removed_change(ql_items, index) IN
       /\ ql_items' = taken.items
       /\ ql_selected' = ql_selected \ {taken.item}
       /\ ql_emitted' = IF taken.item \in ql_selected
                        THEN SelectionEvent(ql_items', ql_selected')
                        ELSE NoEvent
    /\ ql_last' = Handled("removed", {}, <<>>, <<>>)
    /\ UNCHANGED <<keyVars, reqVars, dsVars, imgVars, qtVars, vmVars, rdVars,
                   svVars, svgVars, thVars, prVars>>

\* _on_selection_change(selection); when the selection of an item changes,
\* itemSelectionChanged runs _selectionChanged, the last time with the
\* selection as it is at the end.
QlOnSelectionChange(selection) ==
    /\ ql_selected' = on_selection_change(ql_items, selection)
    /\ ql_emitted' = IF ql_selected' # ql_selected
                     THEN SelectionEvent(ql_items, ql_selected')
                     ELSE NoEvent
    /\ ql_last' = Handled("_on_selection_change", selection, <<>>, <<>>)
    /\ UNCHANGED <<ql_layers, ql_items>>
    /\ UNCHANGED <<keyVars, reqVars, dsVars, imgVars, qtVars, vmVars, rdVars,
                   svVars, svgVars, thVars, prVars>>

\* The user selects the items selected in the widget: itemSelectionChanged
\* runs _selectionChanged.
QlUserSelects(selected) ==
    /\ selected # ql_selected
    /\ \A item \in selected : \E r \in 1..Len(ql_items) : ql_items[r] = item
    /\ ql_selected' = selected
    /\ ql_emitted' = SelectionEvent(ql_items, selected)
    /\ ql_last' = Handled("_selectionChanged", {}, <<>>, <<>>)
    /\ UNCHANGED <<ql_layers, ql_items>>
    /\ UNCHANGED <<keyVars, reqVars, dsVars, imgVars, qtVars, vmVars, rdVars,
                   svVars, svgVars, thVars, prVars>>

\* The reordered event is delivered: _on_reordered_change((old_indices,
\* new_indices)).  The handler does not read self.layers, whose own
\* reordering is not followed.
QlReordered(old_indices, new_indices) ==
    /\ Len(old_indices) = Len(new_indices)
    /\ \A k \in 1..Len(old_indices) :
           old_indices[k] < Len(ql_items) /\ new_indices[k] < Len(ql_items)
    /\ ql_items' = on_reordered_change(ql_items, old_indices, new_indices)
    /\ ql_emitted' = NoEvent
    /\ ql_last' = Handled("reordered", {}, old_indices, new_indices)
    /\ UNCHANGED <<ql_layers, ql_selected>>
    /\ UNCHANGED <<keyVars, reqVars, dsVars, imgVars, qtVars, vmVars, rdVars,
                   svVars, svgVars, thVars, prVars>>

\* QtLayerList(layers) for an empty layer list.
QlInit ==
    /\ ql_layers = <<>>
    /\ ql_items = <<>>
    /\ ql_selected = {}
    /\ ql_emitted = NoEvent
    /\ ql_last = [op |-> "init", selection |-> {}, old |-> <<>>,
                  new |-> <<>>, before |-> <<>>]

\* Tuples of distinct model indexes, and those in ascending order.
IndexTuplesDistinct ==
    {t \in UNION {[1..n -> ModelIndexes] : n \in 1..MaxItems} :
        \A i, j \in 1..Len(t) : i # j => t[i] # t[j]}
IndexTuplesAscending ==
    {t \in IndexTuplesDistinct : \A i, j \in 1..Len(t) : i < j => t[i] < t[j]}

NextQtList ==
    \/ \E layer \in ListLayers, index \in ModelIndexes, selected \in BOOLEAN :
           QlAdded(layer, index, selected)
    \/ \E index \in ModelIndexes : QlRemoved(index)
    \/ \E selection \in SUBSET ModelIndexes : QlOnSelectionChange(selection)
    \/ \E selected \in SUBSET ListLayers : QlUserSelects(selected)

\* Layers 1, 2, ... are appended, unselected, and reordered events
\* delivered.
NextQtReorder ==
    \/ \E layer \in ListLayers :
           layer = Len(ql_layers) + 1 /\ QlAdded(layer, Len(ql_layers), FALSE)
    \/ \E old_indices \in IndexTuplesAscending,
          new_indices \in IndexTuplesDistinct :
           QlReordered(old_indices, new_indices)

-----------------------------------------------------------------------------
(***************************************************************************)
(* The property setters of ViewerModel.                                    *)
(* pr holds the private fields behind the properties: _status, _help,      *)
(* _title, _interactive, _cursor, _cursor_size, _active_layer, _palette.   *)
(* A setter's value is the fields it leaves and the emitters of            *)
(* self.events it called, in the order of the calls.  Nothing is connected *)
(* to these emitters inside ViewerModel.                                   *)
(***************************************************************************)
MaxCursorSize == 2

Statuses == {"Ready", "busy"}
Helps == {"", "hold space to pan"}
Titles == {"napari", "other title"}
Cursors == {"standard", "cross"}
CursorSizes == {None} \cup (1..MaxCursorSize)
ActiveLayers == {None} \cup ViewerLayers

\* A status setter that emits whether or not the value differs.
status_setter_always_notifies(self, status) ==
    [self |-> [self EXCEPT !.status = status], events |-> <<"status">>]

\* @status.setter
status_setter(self, status) ==
    IF status = self.status
    THEN [self |-> self, events |-> <<>>]
    ELSE [self |-> [self EXCEPT !.status = status], events |-> <<"status">>]

\* @help.setter
help_setter(self, help) ==
    IF help = self.help
    THEN [self |-> self, events |-> <<>>]
    ELSE [self |-> [self EXCEPT !.help = help], events |-> <<"help">>]

\* @title.setter
title_setter(self, title) ==
    IF title = self.title
    THEN [self |-> self, events |-> <<>>]
    ELSE [self |-> [self EXCEPT !.title = title], events |-> <<"title">>]

\* @interactive.setter
interactive_setter(self, interactive) ==
    IF interactive = self.interactive
    THEN [self |-> self, events |-> <<>>]
    ELSE [self |-> [self EXCEPT !.interactive = interactive],
          events |-> <<"interactive">>]

\* @cursor.setter
cursor_setter(self, cursor) ==
    IF cursor = self.cursor
    THEN [self |-> self, events |-> <<>>]
    ELSE [self |-> [self EXCEPT !.cursor = cursor], events |-> <<"cursor">>]

\* @cursor_size.setter: it calls self.events.cursor().
cursor_size_setter(self, cursor_size) ==
    IF cursor_size = self.cursor_size
    THEN [self |-> self, events |-> <<>>]
    ELSE [self |-> [self EXCEPT !.cursor_size = cursor_size],
          events |-> <<"cursor">>]

\* @active_layer.setter
active_layer_setter(self, active_layer) ==
    IF active_layer = self.active_layer
    THEN [self |-> self, events |-> <<>>]
    ELSE [self |-> [self EXCEPT !.active_layer = active_layer],
          events |-> <<"active_layer">>]

\* @palette.setter, on the fields of pr.
viewer_palette_setter(self, value) ==
    LET result == palette_setter(self.palette, value) IN
    [self |-> [self EXCEPT !.palette = result.palette],
     events |-> [i \in 1..result.events |-> "palette"]]

\* The assignment viewer.<property> = value has run with this result.
Assign(property, value, result) ==
    /\ pr' = result.self
    /\ pr_last' = [property |-> property, value |-> value, before |-> pr,
                   events |-> result.events]
    /\ UNCHANGED <<keyVars, reqVars, dsVars, imgVars, qtVars, vmVars, rdVars,
                   svVars, svgVars, thVars, qlVars>>

\* viewer.status = status
AssignStatus(status) == Assign("status", status, status_setter(pr, status))

\* viewer.help = help
AssignHelp(help) == Assign("help", help, help_setter(pr, help))

\* viewer.title = title
AssignTitle(title) == Assign("title", title, title_setter(pr, title))

\* viewer.interactive = interactive
AssignInteractive(interactive) ==
    Assign("interactive", interactive, interactive_setter(pr, interactive))

\* viewer.cursor = cursor
AssignCursor(cursor) == Assign("cursor", cursor, cursor_setter(pr, cursor))

\* viewer.cursor_size = cursor_size
AssignCursorSize(cursor_size) ==
    Assign("cursor_size", cursor_size, cursor_size_setter(pr, cursor_size))

\* viewer.active_layer = active_layer
AssignActiveLayer(active_layer) ==
    Assign("active_layer", active_layer,
           active_layer_setter(pr, active_layer))

\* viewer.palette = palette
AssignPalette(value) ==
    Assign("palette", value, viewer_palette_setter(pr, value))

\* After ViewerModel(): the fields as __init__ assigns them, the palette
\* being the one self.theme = 'dark' stored.
PrInit ==
    /\ pr = [status |-> "Ready", help |-> "", title |-> "napari",
             interactive |-> TRUE, cursor |-> "standard",
             cursor_size |-> None, active_layer |-> None,
             palette |-> "dark palette"]
    /\ pr_last = [property |-> "none", value |-> "none", before |-> <<>>,
                  events |-> <<>>]

NextSetters ==
    \/ \E status \in Statuses : AssignStatus(status)
    \/ \E help \in Helps : AssignHelp(help)
    \/ \E title \in Titles : AssignTitle(title)
    \/ \E interactive \in BOOLEAN : AssignInteractive(interactive)
    \/ \E cursor \in Cursors : AssignCursor(cursor)
    \/ \E cursor_size \in CursorSizes : AssignCursorSize(cursor_size)
    \/ \E active_layer \in ActiveLayers : AssignActiveLayer(active_layer)
    \/ \E value \in Palettes \cup {NonePalette} : AssignPalette(value)

\* No visual has been constructed yet.
ImgInit ==
    /\ lay = NoLayer
    /\ vis = [node |-> "image", image |-> "initial", volume |-> "initial"]
    /\ tile2data = <<>>
    /\ ret = [call |-> "none", exc |-> "none", over |-> FALSE]

Init ==
    /\ KeyInit
    /\ ReqInit
    /\ DsInit
    /\ ImgInit
    /\ QtInit
    /\ VmInit
    /\ RdInit
    /\ SvInit
    /\ SvgInit
    /\ ThInit
    /\ QlInit
    /\ PrInit

SpecKey == Init /\ [][NextKey]_vars
SpecRequest == Init /\ [][NextRequest]_vars
SpecDownsample == Init /\ [][NextDownsample]_vars
SpecImage == Init /\ [][NextImage]_vars
SpecKeyPress == Init /\ [][NextKeyPress]_vars
SpecViewer == Init /\ [][NextViewer]_vars
\* The loop of read_data_with_plugins is not suspended for ever.
SpecRead == Init /\ [][NextRead]_vars /\ WF_vars(ReadLoop)
SpecSave == Init /\ [][NextSave]_vars
SpecSvg == Init /\ [][NextSvg]_vars
SpecTheme == Init /\ [][NextTheme]_vars
SpecQtList == Init /\ [][NextQtList]_vars
SpecQtReorder == Init /\ [][NextQtReorder]_vars
SpecSetters == Init /\ [][NextSetters]_vars

\* C3: thumbnail_source returns the chunk named 'thumbnail_source' when the
\* request has one, otherwise the chunk named 'image', and None only when the
\* request has neither.
C3_ThumbnailSourceFallback ==
    thumb.read =>
        /\ "thumbnail_source" \in DOMAIN chunks
               => thumb.value = chunks["thumbnail_source"]
        /\ ("thumbnail_source" \notin DOMAIN chunks /\ "image" \in DOMAIN chunks)
               => thumb.value = chunks["image"]
        /\ (thumb.value = NoneArray)
               <=> ("thumbnail_source" \notin DOMAIN chunks
                       /\ "image" \notin DOMAIN chunks)

C3_Witness ==
    /\ thumb.read
    /\ "thumbnail_source" \notin DOMAIN chunks
    /\ "image" \in DOMAIN chunks
    /\ thumb.value.of = "image"

C5_LoadOnlyReplacesValues ==
    req_pc = "done" =>
        /\ in_memory
        /\ DOMAIN chunks = DOMAIN before.chunks
        /\ num_chunks = Cardinality(DOMAIN before.chunks)
        /\ \A n \in DOMAIN chunks :
               chunks[n] = [before.chunks[n] EXCEPT !.kind = "ndarray"]
        /\ req_key = before.key
        /\ before.in_memory => chunks = before.chunks

C5_Witness ==
    /\ req_pc = "done"
    /\ loads = 2
    /\ before.in_memory
    /\ \E n \in DOMAIN chunks : chunks[n].T
    /\ num_chunks >= 2

C2_DifferentFieldsUnequal ==
    (cmp.made /\ ~(cmp.same_layer /\ cmp.same_data /\ cmp.same_level
                      /\ cmp.same_indices))
        => ~cmp.eq

\* C6: for a non-multiscale layer, any data shape and positive
\* MAX_TEXTURE_SIZE, downsample_texture returns data that fits the texture:
\* an axis of length n > MAX has length ceil(n / ceil(n / MAX)) <= MAX
\* afterwards, and an axis with n <= MAX keeps its length.
C6_DownsampleFits ==
    (ds.called /\ ~ds.layer.multiscale) =>
        /\ ds.exc = "none"
        /\ DOMAIN ds.out = DOMAIN ds.data
        /\ \A i \in DOMAIN ds.out :
               /\ ds.out[i] <= ds.MAX
               /\ ds.data[i] <= ds.MAX => ds.out[i] = ds.data[i]
               /\ ds.data[i] > ds.MAX =>
                      ds.out[i] = CeilDiv(ds.data[i], CeilDiv(ds.data[i], ds.MAX))

\* C7: when the layer is multiscale and an axis of the data exceeds
\* MAX_TEXTURE_SIZE, downsample_texture raises ValueError, and the tile2data
\* scale and the data the rendering nodes hold stay as they were.
C7_MultiscaleRaisesUnchanged ==
    [][(ret'.call = "_set_node_data" /\ ret'.over /\ lay.multiscale)
          => (ret'.exc = "ValueError" /\ tile2data' = tile2data /\ vis' = vis)]_vars

C7_Witness ==
    /\ ret.call = "_set_node_data"
    /\ ret.over
    /\ lay.multiscale
    /\ ret.exc = "ValueError"
    /\ vis.node = "volume"
    /\ vis.volume = "zeros"

\* C8: when a key with an entry in viewer.key_bindings is pressed on the
\* canvas, the bound function is called with the viewer and the top layer's
\* on_key_press is not called for that event.
C8_ViewerBindingInsteadOfLayer ==
    (kp.pressed /\ kp.text \in DOMAIN key_bindings) =>
        /\ kp.bound = key_bindings[kp.text]
        /\ kp.viewer
        /\ kp.layer = 0

\* The layers of the list that are selected.
SelectedInList == {l \in ViewerLayers : InList(l) /\ l \in layer_selected}

\* C9: after a layers added, removed or reordered event and after a layer's
\* select or deselect event, active_layer is the selected layer when exactly
\* one layer of the list is selected and None otherwise; with None the viewer
\* has status 'Ready', help '', cursor 'standard' and interactive True, and
\* otherwise these four are the active layer's.
C9_ActiveLayerIsTheSingleSelected ==
    last.event \in {"added", "removed", "reordered", "select", "deselect"} =>
        /\ Cardinality(SelectedInList) = 1 => vm.active_layer \in SelectedInList
        /\ Cardinality(SelectedInList) # 1 => vm.active_layer = None
        /\ vm.active_layer = None =>
               /\ vm.status = "Ready"
               /\ vm.help = ""
               /\ vm.cursor = "standard"
               /\ vm.interactive = TRUE
        /\ vm.active_layer # None =>
               /\ vm.status = layer_status(vm.active_layer)
               /\ vm.help = layer_help(vm.active_layer)
               /\ vm.cursor = layer_cursor(vm.active_layer)
               /\ vm.interactive = layer_interactive(vm.active_layer)

\* Of two selected layers the first has just been deselected, and the second
\* layer of the list is the active one.
C9_Witness ==
    /\ last.event = "deselect"
    /\ Len(viewer_layers) = 2
    /\ SelectedInList = {viewer_layers[2]}
    /\ vm.active_layer = viewer_layers[2]
    /\ vm.status = layer_status(viewer_layers[2])

\* C10: once layers have been added, and whatever data has been put in place
\* since, the length of the dims range is the largest ndim among the layers
\* of the list: no layer of the list has more dimensions and one has as many.
C10_DimsFollowLargestNdim ==
    viewer_layers # <<>> =>
        /\ \A l \in ViewerLayers : InList(l) => layer_ndim[l] <= Len(dims_range)
        /\ \E l \in ViewerLayers : InList(l) /\ layer_ndim[l] = Len(dims_range)

\* The only layer's data has been replaced by data of fewer dimensions and
\* the dims range is shorter than it was.
C10_Witness ==
    /\ last.event = "data"
    /\ Len(viewer_layers) = 1
    /\ Len(dims_range) < last.was
    /\ Len(dims_range) = layer_ndim[viewer_layers[1]]

\* The implementations whose reader function returns LayerData for the path.
Producing == {i \in 1..Len(readers) :
                 readers[i].hook = "reader" /\ readers[i].reader = "data"}

\* C11: when read_data_with_plugins returns, it returns the LayerData of the
\* first implementation in hook order whose reader produces some, and it
\* returns None only when no implementation offered a reader or every reader
\* that was called raised.
C11_FirstNonNoneLayerData ==
    read_pc = "returned" =>
        /\ Producing # {} =>
               /\ read_ret \in Producing
               /\ \A i \in Producing : read_ret <= i
        /\ read_ret = None =>
               \/ \A i \in 1..Len(readers) : readers[i].hook = "declines"
               \/ \A i \in 1..Len(readers) :
                      reader_calls[i] > 0 => readers[i].reader = "raises"

\* C12: every call of read_data_with_plugins comes to an end; no reader
\* function is called twice, a reader that raised is on the skip list while
\* the loop goes on, and the call ends by returning, or by raising what a
\* napari_get_reader implementation raised, never what a reader raised.
C12_ReadTerminates ==
    /\ [](\A i \in 1..Len(readers) :
             /\ reader_calls[i] <= 1
             /\ (reader_calls[i] = 1 /\ readers[i].reader = "raises")
                    => InSeq(i, skip_impls))
    /\ [](read_pc = "hook raised" =>
             \E i \in 1..Len(readers) :
                 readers[i].hook = "raises" /\ reader_calls[i] = 0)
    /\ (read_pc = "loop") ~> (read_pc \in {"returned", "hook raised"})

\* Two readers raised, each called once, and the call returned.
C12_Witness ==
    /\ read_pc = "returned"
    /\ Len(skip_impls) = 2
    /\ \A k \in 1..2 : reader_calls[skip_impls[k]] = 1
    /\ \A k \in 1..2 : readers[skip_impls[k]].reader = "raises"

\* C13: with no layers save_layers returns [] and calls no hook and no
\* writer; with one layer it calls the napari_write_<layer type> hook once,
\* no other, and returns the one written path, or [] when the hook wrote
\* nothing; with more layers what it returns is the list the writer function
\* got from napari_get_writer returned.
C13_SaveLayersDispatch ==
    sv.called =>
        /\ Len(sv.layers) = 0 =>
               /\ sv.out.exc = "none" /\ sv.out.value = <<>>
               /\ sv.out.write_hooks = <<>>
               /\ sv.out.get_writer_calls = 0 /\ sv.out.writer_calls = 0
        /\ Len(sv.layers) = 1 =>
               /\ sv.out.write_hooks = <<sv.layers[1]>>
               /\ sv.out.get_writer_calls = 0 /\ sv.out.writer_calls = 0
               /\ sv.out.exc = "none" =>
                      sv.out.value = IF sv.wh = "path" THEN <<"path">>
                                     ELSE <<>>
        /\ (Len(sv.layers) > 1 /\ sv.out.exc = "none") =>
               /\ sv.out.write_hooks = <<>>
               /\ sv.out.get_writer_calls = 1 /\ sv.out.writer_calls = 1
               /\ \E p \in WriterPlugins :
                      /\ sv.gw[p] = "writer"
                      /\ sv.wr[p] # "raises"
                      /\ sv.out.value = IF sv.wr[p] = "paths"
                                        THEN [i \in 1..Len(sv.layers) |->
                                                  "layer file"]
                                        ELSE <<>>

\* Several layers were saved through the writer of the second plugin.
C13_Witness ==
    /\ sv.called
    /\ Len(sv.layers) = 2
    /\ sv.plugin = NoPlugin
    /\ sv.gw = <<"none", "writer">>
    /\ sv.wr[2] = "paths"
    /\ sv.out.value = <<"layer file", "layer file">>

\* The plugin whose napari_get_writer answer save_layers got: the requested
\* one, or the first in hook order that does not return None; 0 with none.
Supplier ==
    IF sv.plugin # NoPlugin THEN sv.plugin
    ELSE IF \E p \in WriterPlugins : sv.gw[p] # "none"
         THEN CHOOSE p \in WriterPlugins :
                  /\ sv.gw[p] # "none"
                  /\ \A q \in WriterPlugins : sv.gw[q] # "none" => p <= q
         ELSE 0

\* C14: with several layers, when napari_get_writer returns nothing callable
\* the call raises ValueError and calls no writer function; when the writer
\* function is called and raises, the call raises PluginCallError naming the
\* implementation that supplied the writer.
C14_WriterErrors ==
    (sv.called /\ Len(sv.layers) > 1) =>
        /\ (Supplier = 0 \/ sv.gw[Supplier] \in {"none", "not callable"}) =>
               /\ sv.out.exc = "ValueError"
               /\ sv.out.writer_calls = 0
        /\ (Supplier # 0 /\ sv.gw[Supplier] = "writer"
                /\ sv.wr[Supplier] = "raises") =>
               /\ sv.out.exc = "PluginCallError"
               /\ sv.out.impl = Supplier
               /\ sv.out.writer_calls = 1

\* No plugin was requested, the second plugin's writer was called and raised.
C14_Witness ==
    /\ sv.called
    /\ Len(sv.layers) = 2
    /\ sv.plugin = NoPlugin
    /\ sv.gw = <<"none", "writer">>
    /\ sv.wr[2] = "raises"
    /\ sv.out.exc = "PluginCallError"
    /\ sv.out.impl = 2

\* The place of layer l in the list, 0 when it is not in it.
IndexInList(l) ==
    IF InList(l) THEN CHOOSE i \in 1..Len(viewer_layers) : viewer_layers[i] = l
    ELSE 0

\* C15: the group of the SVG that to_svg returns holds the XML elements of
\* the layers of the list that are visible and of no other layer, each
\* element once, in the order of the layer list; and the call of to_svg
\* changes nothing of the viewer or of a layer.
C15_SvgOfVisibleLayers ==
    /\ [](svg.called /\ svg.exc = "none" =>
            /\ \A i \in 1..Len(svg.group) :
                   /\ InList(svg.group[i][1])
                   /\ svg.group[i][1] \in layer_visible
            /\ \A l \in ViewerLayers :
                   (InList(l) /\ l \in layer_visible) =>
                       \A k \in 1..Len(layer_to_xml_list(l)) :
                           Cardinality({i \in 1..Len(svg.group) :
                               svg.group[i] = layer_to_xml_list(l)[k]}) = 1
            /\ \A i, j \in 1..Len(svg.group) :
                   i < j =>
                       \/ IndexInList(svg.group[i][1])
                              < IndexInList(svg.group[j][1])
                       \/ /\ svg.group[i][1] = svg.group[j][1]
                          /\ svg.group[i][2] < svg.group[j][2])
    /\ [][svg' # svg => UNCHANGED <<vmVars, layer_visible>>]_vars

\* Of two layers in the list the first is hidden, and the SVG made without
\* a view box holds the elements of the second only.
C15_Witness ==
    /\ svg.called /\ svg.exc = "none" /\ svg.view_box = <<>>
    /\ Len(viewer_layers) = 2
    /\ viewer_layers[1] \notin layer_visible
    /\ viewer_layers[2] \in layer_visible
    /\ svg.group = layer_to_xml_list(viewer_layers[2])
    /\ svg.group # <<>>

\* C16: after theme is assigned a name that is no key of themes, ValueError
\* was raised, the palette is what it was and no palette event was emitted;
\* after it is assigned a key of themes, the palette is themes[name] and the
\* theme getter returns a key of themes whose palette is the current one.
C16_ThemeSetter ==
    (th.property = "theme" /\ th.value \in ThemeNames) =>
        /\ ~has_theme(themes, th.value) =>
               /\ th.exc = "ValueError"
               /\ palette = th.before
               /\ th.events = 0
        /\ has_theme(themes, th.value) =>
               /\ th.exc = "none"
               /\ palette = themes_getitem(themes, th.value)
               /\ has_theme(themes, theme_getter(themes, palette))
               /\ themes_getitem(themes, theme_getter(themes, palette))
                      = palette

\* With a custom theme that has the palette of 'dark' and the light palette
\* current, theme was set to 'custom': the palette changed, one event was
\* emitted, and the getter names 'dark'.
C16_Witness ==
    /\ th.property = "theme" /\ th.value = "custom"
    /\ th.before = "light palette"
    /\ palette = "dark palette"
    /\ th.events = 1
    /\ theme_getter(themes, palette) = "dark"

\* C17: after added and removed events the widget has one item for each
\* layer of the list and no other, and the item of the layer at model index
\* i is at row count-1-i.
C17_WidgetMirrorsLayers ==
    /\ Len(ql_items) = Len(ql_layers)
    /\ \A i \in 0..(Len(ql_layers) - 1) :
           ql_items[((Len(ql_items) - 1) - i) + 1] = ql_layers[i + 1]

\* C18: after _on_reordered_change((old_indices, new_indices)) the widget
\* has as many items as before, and for every k the item that was at model
\* index old_indices[k] is at model index new_indices[k], that is at row
\* count-1-new_indices[k].
C18_ReorderedToNewIndices ==
    ql_last.op = "reordered" =>
        /\ Len(ql_items) = Len(ql_last.before)
        /\ \A k \in 1..Len(ql_last.old) :
               ql_items[((Len(ql_items) - 1) - ql_last.new[k]) + 1]
                   = ql_last.before[((Len(ql_items) - 1) - ql_last.old[k]) + 1]

\* The model indexes of the selected items.
SelectedModelIndexes ==
    {i \in 0..(Len(ql_items) - 1) :
        ql_items[((Len(ql_items) - 1) - i) + 1] \in ql_selected}

C20_NodeDataOnlyWhenLoaded ==
    [][(vis'.image # vis.image \/ vis'.volume # vis.volume) => lay'.loaded]_vars

\* The data event came while the layer was not loaded, and both nodes still
\* hold what they were constructed with.
C20_Witness ==
    /\ lay # NoLayer
    /\ ~lay.loaded
    /\ ret.call = "_on_data_change"
    /\ vis.image = "initial"
    /\ vis.volume = "initial"

\* The emitter of self.events that belongs to a property: its own, and
\* cursor for cursor_size.
EmitterOf(property) == IF property = "cursor_size" THEN "cursor" ELSE property

\* C21: every property setter of ViewerModel (status, help, title,
\* interactive, cursor, cursor_size, active_layer, palette) notifies only on
\* change: assigning the current value changes no field and emits no event;
\* assigning a different value stores it, emits exactly one event, of the
\* property's emitter (cursor for cursor and cursor_size), and leaves every
\* other property as it was.
C21_SettersNotifyOnlyOnChange ==
    pr_last.property # "none" =>
        LET fields == pr_last.before
            property == pr_last.property IN
        IF pr_last.value = fields[property]
        THEN pr = fields /\ pr_last.events = <<>>
        ELSE /\ pr = [fields EXCEPT ![property] = pr_last.value]
             /\ pr_last.events = <<EmitterOf(property)>>

C21_Witness ==
    /\ pr_last.property = "cursor_size"
    /\ pr_last.before.cursor_size # pr.cursor_size
    /\ pr_last.before.status # "Ready"
    /\ pr.palette # "dark palette"
    /\ pr_last.events = <<"cursor">>

=============================================================================
